---- MODULE Spec2Model ----
(***************************************************************************)
(* Cart -> order -> payment flow of the estycommerce Django backend.       *)
(*                                                                         *)
(* The database is PostgreSQL (api/settings.py) at its default isolation   *)
(* level READ COMMITTED: a statement sees what was committed when it       *)
(* starts plus its own transaction's writes, an UPDATE takes the row lock  *)
(* until the transaction ends, and column CHECK / UNIQUE constraints are   *)
(* enforced by the database.  Money is kept in minor units (Decimal with   *)
(* two places = an integer number of hundredths).                          *)
(*                                                                         *)
(* The cart handlers run as one step each; the checkout handler is split   *)
(* at its database statements so that two requests can interleave.         *)
(***************************************************************************)
EXTENDS Integers, FiniteSets, Sequences, TLC

\* ------------------------------------------------------------------ bounds
MaxStock  == 2      \* initial in_stock of a product is in 1..MaxStock
MaxCarts  == 2      \* Cart rows ever created
MaxLines  == 2      \* CartProduct rows alive at a time
MaxOrders == 2      \* Order rows ever committed

None      == "none"
NoCart    == 0      \* request.session has no 'cart_id' key
Products  == {"P", "Q"}
Sizes     == {None, "M"}            \* selected_size: NULL or one ProductSize
Sessions  == {"s1", "s2"}           \* browser sessions (request.session)
Procs     == {"w1", "w2"}           \* worker threads serving checkout
Quantities == {1}                   \* request.data['quantity'], checkout flows
AnyQuantities == {-1, 0, 1, 2}      \* request.data['quantity'], cart flows
CartActions == {"inc", "dcr", "rmv", "bad"}
OrderNumbers == {"ORD-A", "ORD-B"}  \* values uuid4().hex[:10] can produce
RefTokens == {"r1", "r2"}           \* values secrets.token_urlsafe can produce
FreshDraws == {<<"ORD-A", "r1">>, <<"ORD-B", "r2">>}

Categories == {"c1", "c2"}          \* Category rows (by slug)

\* The Product rows at start: title, price and discount_price in minor
\* units (10.00; 6.00 discounted to 5.00), 0 standing for a NULL discount
\* (both are falsy), category and is_available.
InitialCatalog ==
  [p \in Products |->
     [title |-> p,
      price |-> IF p = "P" THEN 1000 ELSE 600,
      discount_price |-> IF p = "Q" THEN 500 ELSE 0,
      category |-> "c1",
      is_available |-> TRUE]]

VARIABLES
  exists,      \* Product rows present in the table
  catalog,     \* Product.title, price, discount_price, category, is_available
  cache,       \* the Django cache: key -> cached value
  in_stock,    \* Product.in_stock, committed value
  initStock,   \* history: in_stock at start
  session,     \* request.session['cart_id'] per session (NoCart = key absent)
  nCarts,      \* Cart rows are 1..nCarts
  total,       \* Cart.total
  lines,       \* CartProduct rows
  orders,      \* Order rows (committed)
  orderItems,  \* OrderItem rows (committed)
  pc,          \* position of each checkout request
  loc,         \* locals of each checkout request
  lock,        \* row lock on each Product row (holder or None)
  lastOp,      \* history: the request that completed last and its response
  call,        \* the Paystack._make_request call: loop state and history
  vp,          \* the Paystack.verify_payment call: arguments and result
  cw,          \* position and locals of each cart request run in steps
  rd           \* a get_all_products() call between its miss and its store

\* the state of the shop: database, sessions, cache and request handlers
shopVars == <<exists, catalog, cache, in_stock, initStock, session, nCarts,
              total, lines, orders, orderItems, pc, loc, lock, lastOp, cw,
              rd>>

vars == <<exists, catalog, cache, in_stock, initStock, session, nCarts, total, lines,
          orders, orderItems, pc, loc, lock, lastOp, call, vp, cw, rd>>

\* ----------------------------------------------------------------- helpers
\* Product.price
Price(p) == catalog[p].price

\* Product.discount_price
DiscountPrice(p) == catalog[p].discount_price

\* Product.final_price
FinalPrice(p) == IF DiscountPrice(p) # 0 THEN DiscountPrice(p) ELSE Price(p)

\* Product.title
Title(p) == catalog[p].title

RECURSIVE SumField(_, _)
\* sum(item.<f> for item in rows)
SumField(rows, f) ==
  IF rows = {} THEN 0
  ELSE LET r == CHOOSE x \in rows : TRUE
       IN  r[f] + SumField(rows \ {r}, f)

\* cart.items.all()
CartLines(c) == {l \in lines : l.cart = c}

\* order.items.all()
ItemsOf(o) == {i \in orderItems : i.order = o.id}

\* CartProduct.save(): subtotal = product.final_price * quantity
LineSubtotal(p, q) == FinalPrice(p) * q

\* an IntegerField column: no CHECK constraint
PositiveCheckOff(v) == TRUE

\* PositiveIntegerField: the column carries CHECK (value >= 0)
PositiveCheck(v) == v >= 0

\* the lookup written with "selected_size = NULL", which matches no row
FindLineSized(ls, c, p, size) ==
  {l \in ls : l.cart = c /\ l.product = p /\ l.size = size /\ size # None}

\* cart.items.filter(product=product, selected_size=selected_size):
\* a selected_size of None is compared with IS NULL
FindLine(ls, c, p, size) ==
  {l \in ls : l.cart = c /\ l.product = p /\ l.size = size}

\* the rows of ls with the key of row r
SameKey(ls, r) ==
  {l \in ls : l.cart = r.cart /\ l.product = r.product /\ l.size = r.size}

\* queryset.first(): the row with the lowest primary key
FirstRow(found) == CHOOSE l \in found : \A m \in found : l.n <= m.n

\* a cart request that is not running
NoCartRequest ==
  [at |-> "idle", kind |-> None, cart |-> NoCart, product |-> None,
   size |-> None, qty |-> 0, action |-> None, row |-> {}, gone |-> FALSE,
   new |-> {}, tot |-> 0]

\* a stock check that lets one unit more than the stock through
ExceedsStockByTwo(quantity, stock) == quantity > stock + 1

\* the stock check of the cart handlers: quantity > product.in_stock
ExceedsStock(quantity, stock) == quantity > stock

\* update_total() that computes the sum and does not store it
UpdateTotalStale(tot, ls, c) == tot

\* Cart.update_total() on the given CartProduct table
UpdateTotal(tot, ls, c) ==
  [tot EXCEPT ![c] = SumField({l \in ls : l.cart = c}, "subtotal")]

\* the orders in which a queryset without ORDER BY can return its rows
RowOrders(rows) ==
  {sq \in [1..Cardinality(rows) -> rows] :
      \A i, j \in 1..Cardinality(rows) : i # j => sq[i] # sq[j]}

NoWrite == -1

\* request.data of a checkout request: a mapping from field names to
\* values.  NoBody carries nothing; HostileBody names the buyer and also
\* carries the columns a client has no say in.
NoBody == [f \in {} |-> None]
HostileBody ==
  [order_by |-> "Eve", order_status |-> "delivered", payment_complete |-> TRUE,
   amount |-> 1, subtotal |-> 1, ref |-> "client-ref",
   order_number |-> "ORD-CLIENT", user |-> "mallory", cart |-> 2]
Bodies == {NoBody, HostileBody}

\* a serializer that excludes only the columns the view passes to save()
CheckoutExcludeSaveKwargs ==
  {"cart", "amount", "order_status", "subtotal", "user"}

\* CheckoutSerializer.Meta.exclude
CheckoutExclude ==
  {"cart", "amount", "order_status", "subtotal",
   "payment_complete", "ref", "order_number", "user"}

\* serializer.validated_data: the body's fields the serializer declares
ValidatedData(body) ==
  [f \in (DOMAIN body) \ CheckoutExclude |-> body[f]]

\* the value of column f of the row made by serializer.save(**kwargs):
\* kwargs override validated_data, the model default fills the rest
OrderField(data, kwargs, f, default) ==
  IF f \in DOMAIN kwargs THEN kwargs[f]
  ELSE IF f \in DOMAIN data THEN data[f]
  ELSE default

\* request.user.profile of the session's user
UserOf(s) == s

EmptyLoc == [sess |-> None, cart |-> NoCart, amount |-> 0, number |-> None,
             data |-> NoBody,
             ref |-> None, items |-> <<>>, idx |-> 0, snap |-> 0,
             oitems |-> {}, writes |-> [p \in Products |-> NoWrite]]

\* ------------------------------------------------------------------ cache
\* The keys modelled: 'cat:prod:{slug}:{limit}' holds a category's product
\* list, 'cat:count:{id}' its product count, 'paystack_verify_{ref}' the
\* data of a verification.  An entry is present or not.
EmptyCache == [prod |-> {}, count |-> {}, verify |-> {}]

\* the product list Category.get_all_products() computes on a miss
ProductList(c) ==
  {p \in exists : catalog[p].category = c /\ catalog[p].is_available
                     /\ in_stock[p] > 0}

\* the count Category.get_all_products_count() computes on a miss
ProductCount(c) ==
  Cardinality({p \in exists : catalog[p].category = c /\ catalog[p].is_available})

\* What Product.save(), Product.delete() and the post_save / post_delete
\* receiver delete, for a product of category c: of the keys modelled,
\* cache.delete_pattern(f'cat:prod:{self.category.slug}:*')
ProductCacheClear(ch, c) == [ch EXCEPT !.prod = {e \in @ : e.cat # c}]

\* Category.get_all_products(): the cached list, computed and stored on a
\* miss
GetAllProducts(c) ==
  LET hit == {e \in cache.prod : e.cat = c}
      value == IF hit # {} THEN (CHOOSE e \in hit : TRUE).products
               ELSE ProductList(c)
  IN
  /\ \A w \in Procs : pc[w] = "idle"
  /\ cache' = [cache EXCEPT !.prod = @ \cup {[cat |-> c, products |-> value]}]
  /\ lastOp' = [op |-> "get_all_products", res |-> "ok", cat |-> c]
  /\ UNCHANGED <<call, vp, cw, rd, exists, catalog, in_stock, initStock, session, nCarts,
                 total, lines, orders, orderItems, pc, loc, lock>>

\* Category.get_all_products_count(): the cached count, computed and
\* stored on a miss
GetAllProductsCount(c) ==
  LET hit == {e \in cache.count : e.cat = c}
      value == IF hit # {} THEN (CHOOSE e \in hit : TRUE).n
               ELSE ProductCount(c)
  IN
  /\ \A w \in Procs : pc[w] = "idle"
  /\ cache' = [cache EXCEPT !.count = @ \cup {[cat |-> c, n |-> value]}]
  /\ lastOp' = [op |-> "get_all_products_count", res |-> "ok", cat |-> c]
  /\ UNCHANGED <<call, vp, cw, rd, exists, catalog, in_stock, initStock, session, nCarts,
                 total, lines, orders, orderItems, pc, loc, lock>>

\* no get_all_products() call is between its miss and its store
NoRead == [at |-> "idle", cat |-> None, value |-> {}]

\* a read that ignores the entry found and queries the database
AlwaysComputed(hit, c) == ProductList(c)

\* the list a call returns: the entry cache.get() found, or on a miss the
\* list computed from the database
CachedOrComputed(hit, c) ==
  IF hit # {} THEN (CHOOSE e \in hit : TRUE).products ELSE ProductList(c)

\* get_all_products() up to its database query: cache.get(); on a hit the
\* cached list is returned, on a miss the list is computed
StepReadGet(c) ==
  LET hit == {e \in cache.prod : e.cat = c}
      value == CachedOrComputed(hit, c)
  IN
  /\ rd.at = "idle"
  /\ \A w \in Procs : pc[w] = "idle"
  /\ IF hit # {}
     THEN /\ lastOp' = [op |-> "read_hit", res |-> "ok", cat |-> c,
                        value |-> value]
          /\ UNCHANGED rd
     ELSE /\ lastOp' = [op |-> "read_miss", res |-> "ok", cat |-> c]
          /\ rd' = [at |-> "store", cat |-> c, value |-> value]
  /\ UNCHANGED <<call, vp, cw, exists, catalog, cache, in_stock, initStock,
                 session, nCarts, total, lines, orders, orderItems, pc, loc,
                 lock>>

\* get_all_products(): cache.set(cache_key, products, 1800); return
StepReadStore ==
  /\ rd.at = "store"
  /\ cache' = [cache EXCEPT !.prod = {e \in @ : e.cat # rd.cat}
                               \cup {[cat |-> rd.cat, products |-> rd.value]}]
  /\ lastOp' = [op |-> "read_store", res |-> "ok", cat |-> rd.cat,
                value |-> rd.value]
  /\ rd' = NoRead
  /\ UNCHANGED <<call, vp, cw, exists, catalog, in_stock, initStock, session,
                 nCarts, total, lines, orders, orderItems, pc, loc, lock>>

\* an entry reaches its timeout (1800 s for a list, 3600 s for a count)
CacheExpire(c) ==
  /\ \E e \in cache.prod \cup cache.count : e.cat = c
  /\ cache' = [cache EXCEPT !.prod = {e \in @ : e.cat # c},
                             !.count = {e \in @ : e.cat # c}]
  /\ lastOp' = [op |-> "expire", res |-> "ok"]
  /\ UNCHANGED <<call, vp, cw, rd, exists, catalog, in_stock, initStock, session, nCarts,
                 total, lines, orders, orderItems, pc, loc, lock>>

\* ------------------------------------------------- Paystack._make_request
max_retries == 3    \* self.max_retries
retry_delay == 1    \* self.retry_delay, seconds

\* method arguments, and str.upper() on them
Methods == {"GET", "post", "PATCH"}
Upper(m) == IF m = "post" THEN "POST" ELSE m

\* values of the Retry-After header of a 429 response: absent, a number of
\* seconds, an HTTP date
RetryAfterHeaders == {"absent", "3", "Wed, 21 Oct 2026 07:28:00 GMT"}

\* What one HTTP attempt can end in: requests raises Timeout,
\* ConnectionError or another exception, or a response arrives with a
\* status code; a 200 body carries a status flag (or is no JSON), a 429
\* response a Retry-After header.
\* The body's data is given by the transaction status it reports.
TxStatuses == {"success", "abandoned", "failed"}

Outcomes ==
  {[kind |-> k, code |-> 0, status |-> FALSE, header |-> "absent", data |-> None] :
      k \in {"timeout", "connection_error", "exception"}}
  \cup {[kind |-> "response", code |-> 200, status |-> TRUE, header |-> "absent",
          data |-> d] : d \in TxStatuses}
  \cup {[kind |-> k, code |-> 200, status |-> FALSE, header |-> "absent",
          data |-> None] : k \in {"response", "bad_json"}}
  \cup {[kind |-> "response", code |-> c, status |-> FALSE, header |-> "absent",
          data |-> None] : c \in {201, 500}}
  \cup {[kind |-> "response", code |-> 429, status |-> FALSE, header |-> h,
          data |-> None] : h \in RetryAfterHeaders}

NoCall == [at |-> "idle", method |-> None, attempt |-> 0, sent |-> 0,
           slept |-> <<>>, log |-> <<>>, ok |-> FALSE, result |-> None]

\* a backoff that waits retry_delay after every failure
BackoffFlat(attempt) == retry_delay

\* time.sleep(self.retry_delay * (attempt + 1))
Backoff(attempt) == retry_delay * (attempt + 1)

\* int(response.headers.get('Retry-After', self.retry_delay)): the seconds
\* to sleep; int() raises on a header that is no number
IsInt(header) == header \in {"absent", "3"}
RetryAfter(header) == IF header = "absent" THEN retry_delay ELSE 3

\* _make_request is called
MakeRequestStart(method) ==
  /\ call.at # "loop"
  /\ call' = [NoCall EXCEPT !.at = "loop", !.method = method]
  /\ UNCHANGED <<shopVars, vp>>

\* the call returns (ok, data)
Return(c, ok, result) == [c EXCEPT !.at = "done", !.ok = ok, !.result = result]

\* a failed attempt: sleep and go on when attempts are left, else return
Retry(c, error) ==
  IF c.attempt < max_retries - 1
  THEN [c EXCEPT !.slept = Append(@, Backoff(c.attempt)), !.attempt = @ + 1]
  ELSE Return(c, FALSE, error)

\* one iteration of `for attempt in range(self.max_retries)` in which the
\* HTTP attempt ends in out
MakeRequestAttempt(out) ==
  /\ call.at = "loop"
  /\ call.attempt < max_retries
  /\ UNCHANGED <<shopVars, vp>>
  /\ IF Upper(call.method) \notin {"GET", "POST"}
     THEN call' = Return(call, FALSE, "Unsupported method")
     ELSE
       LET c == [call EXCEPT !.sent = @ + 1, !.log = Append(@, out)]
       IN call' =
          CASE out.kind = "timeout" -> Retry(c, "Request timeout after 3 retries")
            [] out.kind = "connection_error" ->
                 Retry(c, "Connection error after 3 retries")
            [] out.kind \in {"exception", "bad_json"} -> Return(c, FALSE, "str(e)")
            [] out.code = 429 ->
                 IF IsInt(out.header)
                 THEN [c EXCEPT !.slept = Append(@, RetryAfter(out.header)),
                                !.attempt = @ + 1]
                 ELSE Return(c, FALSE, "str(e)")
            [] out.code = 200 ->
                 IF out.status THEN Return(c, TRUE, out.data)
                 ELSE Return(c, FALSE, "message")
            [] OTHER -> Retry(c, "HTTP error")

\* the range is used up: the statement after the loop
MakeRequestExhausted ==
  /\ call.at = "loop"
  /\ call.attempt >= max_retries
  /\ call' = Return(call, FALSE, "Max retries exceeded")
  /\ UNCHANGED <<shopVars, vp>>

\* ------------------------------------------------- Paystack.verify_payment
NoVerify == [at |-> "idle", ref |-> None, use_cache |-> FALSE, ok |-> FALSE,
             data |-> None, cached |-> FALSE]

\* cache.set(f'paystack_verify_{ref}', data, 300)
CacheVerification(ch, ref, data) ==
  [ch EXCEPT !.verify = {e \in @ : e.ref # ref} \cup {[ref |-> ref, data |-> data]}]

\* verify_payment(ref, use_cache) is called: a cached verification is
\* returned, otherwise the GET of transaction/verify/{ref} starts
VerifyPaymentStart(ref, use_cache) ==
  LET hit == {e \in cache.verify : e.ref = ref}
  IN
  /\ vp.at # "request"
  /\ call.at # "loop"
  /\ IF use_cache /\ hit # {}
     THEN /\ vp' = [at |-> "done", ref |-> ref, use_cache |-> use_cache, ok |-> TRUE,
                    data |-> (CHOOSE e \in hit : TRUE).data, cached |-> TRUE]
          /\ UNCHANGED call
     ELSE /\ vp' = [NoVerify EXCEPT !.at = "request", !.ref = ref,
                                    !.use_cache = use_cache]
          /\ call' = [NoCall EXCEPT !.at = "loop", !.method = "GET"]
  /\ UNCHANGED shopVars

\* _make_request has returned (success, data): a success is cached when
\* use_cache is set, and (success, data) is returned
VerifyPaymentReturn ==
  /\ vp.at = "request"
  /\ call.at = "done"
  /\ vp' = [vp EXCEPT !.at = "done", !.ok = call.ok, !.data = call.result]
  /\ cache' = IF call.ok /\ vp.use_cache
              THEN CacheVerification(cache, vp.ref, call.result)
              ELSE cache
  /\ UNCHANGED <<call, cw, rd, exists, catalog, in_stock, initStock, session, nCarts,
                 total, lines, orders, orderItems, pc, loc, lock, lastOp>>

\* a cached verification reaches its timeout of 300 s
VerifyCacheExpire(ref) ==
  /\ \E e \in cache.verify : e.ref = ref
  /\ cache' = [cache EXCEPT !.verify = {e \in @ : e.ref # ref}]
  /\ UNCHANGED <<call, vp, cw, rd, exists, catalog, in_stock, initStock, session, nCarts,
                 total, lines, orders, orderItems, pc, loc, lock, lastOp>>

\* the steps of the _make_request call made by verify_payment
VerifyPaymentAttempt(out) == vp.at = "request" /\ MakeRequestAttempt(out)
VerifyPaymentExhausted == vp.at = "request" /\ MakeRequestExhausted

\* Calls of Paystack.verify_payment, one after the other.
VerifyPaymentNext ==
  \/ \E ref \in RefTokens, use_cache \in BOOLEAN : VerifyPaymentStart(ref, use_cache)
  \/ \E out \in Outcomes : VerifyPaymentAttempt(out)
  \/ VerifyPaymentExhausted
  \/ VerifyPaymentReturn
  \/ \E ref \in RefTokens : VerifyCacheExpire(ref)

\* Calls of Paystack._make_request, one after the other.
PaystackNext ==
  \/ \E m \in Methods : MakeRequestStart(m)
  \/ \E out \in Outcomes : MakeRequestAttempt(out)
  \/ MakeRequestExhausted

Init ==
  /\ exists = Products
  /\ catalog = InitialCatalog
  /\ cache = EmptyCache
  /\ \E n \in 1..MaxStock : in_stock = [p \in Products |-> IF p = "P" THEN n ELSE MaxStock]
  /\ initStock = in_stock
  /\ session = [s \in Sessions |-> NoCart]
  /\ nCarts = 0
  /\ total = [c \in 1..MaxCarts |-> 0]
  /\ lines = {}
  /\ orders = {}
  /\ orderItems = {}
  /\ pc = [w \in Procs |-> "idle"]
  /\ loc = [w \in Procs |-> EmptyLoc]
  /\ lock = [p \in Products |-> None]
  /\ lastOp = [op |-> "init", res |-> None]
  /\ call = NoCall
  /\ vp = NoVerify
  /\ cw = [w \in Procs |-> NoCartRequest]
  /\ rd = NoRead

\* --------------------------------------------------------- AddToCartView
AddToCart(s, p, size, qty) ==
  LET done(res) == lastOp' = [op |-> "add", res |-> res]
      \* 'Only {product.in_stock} items available'
      refuse == lastOp' = [op |-> "add", res |-> "only_n_available",
                           available |-> in_stock[p]]
      same == UNCHANGED <<session, nCarts, total, lines>>
  IN
  /\ UNCHANGED <<call, vp, cw, rd, exists, catalog, cache, in_stock, initStock, orders, orderItems, pc, loc, lock>>
  /\ IF p \notin exists \/ ~catalog[p].is_available
     THEN done("error500") /\ same                        \* get_object_or_404
     ELSE IF in_stock[p] <= 0 THEN done("out_of_stock") /\ same
     ELSE
       LET create == session[s] = NoCart
           c == IF create THEN nCarts + 1 ELSE session[s]
           found == FindLine(lines, c, p, size)
       IN
       /\ create => nCarts < MaxCarts
       /\ IF found # {}
          THEN LET cp == FirstRow(found)
                   new_quantity == cp.quantity + qty
               IN IF ExceedsStock(new_quantity, in_stock[p])
                  THEN refuse /\ same
                  ELSE IF ~PositiveCheck(new_quantity)
                  THEN done("error500") /\ same
                  ELSE LET nl == [cp EXCEPT !.quantity = new_quantity,
                                            !.subtotal = LineSubtotal(p, new_quantity)]
                           ls == (lines \ {cp}) \cup {nl}
                       IN /\ lines' = ls
                          /\ total' = UpdateTotal(total, ls, c)
                          /\ UNCHANGED <<session, nCarts>>
                          /\ done("updated")
          ELSE IF ExceedsStock(qty, in_stock[p])
               THEN \* the response is returned inside the atomic block:
                    \* a cart created by this request is committed
                    /\ refuse
                    /\ nCarts' = IF create THEN c ELSE nCarts
                    /\ session' = [session EXCEPT ![s] = c]
                    /\ UNCHANGED <<total, lines>>
               ELSE IF ~PositiveCheck(qty)
               THEN done("error500") /\ same           \* rolled back
               ELSE /\ Cardinality(lines) < MaxLines
                    /\ LET k == [cart |-> c, product |-> p, size |-> size]
                           nl == [cart |-> c, product |-> p,
                                  size |-> size, quantity |-> qty,
                                  subtotal |-> LineSubtotal(p, qty),
                                  n |-> Cardinality(SameKey(lines, k))]
                           ls == lines \cup {nl}
                       IN /\ lines' = ls
                          /\ total' = UpdateTotal(total, ls, c)
                    /\ nCarts' = IF create THEN c ELSE nCarts
                    /\ session' = [session EXCEPT ![s] = c]
                    /\ done("added")

\* -------------------------------------------------------- ManageCartView
\* the CartProduct row named by the URL's id is given by its key
ManageCart(c, p, size, action) ==
  LET done(res) == lastOp' = [op |-> "manage", res |-> res]
      found == {l \in lines : l.cart = c /\ l.product = p /\ l.size = size}
      save(cp, q) == (lines \ {cp}) \cup
                     {[cp EXCEPT !.quantity = q, !.subtotal = LineSubtotal(p, q)]}
  IN
  /\ UNCHANGED <<call, vp, cw, rd, exists, catalog, cache, in_stock, initStock, session, nCarts, orders,
                 orderItems, pc, loc, lock>>
  /\ IF found = {} THEN done("error500") /\ UNCHANGED <<total, lines>>
     ELSE
       LET cp == FirstRow(found)
       IN
       CASE action = "inc" ->
              IF ExceedsStock(cp.quantity + 1, in_stock[p])
              THEN /\ lastOp' = [op |-> "manage", res |-> "only_n_available",
                                 available |-> in_stock[p]]
                   /\ UNCHANGED <<total, lines>>
              ELSE LET ls == save(cp, cp.quantity + 1)
                   IN lines' = ls /\ total' = UpdateTotal(total, ls, c) /\ done("increased")
         [] action = "dcr" ->
              LET q == cp.quantity - 1
              IN IF q = 0
                 THEN LET ls == lines \ {cp}
                      IN lines' = ls /\ total' = UpdateTotal(total, ls, c) /\ done("removed")
                 ELSE IF ~PositiveCheck(q)
                 THEN done("error500") /\ UNCHANGED <<total, lines>>
                 ELSE LET ls == save(cp, q)
                      IN lines' = ls /\ total' = UpdateTotal(total, ls, c) /\ done("decreased")
         [] action = "rmv" ->
              LET ls == lines \ {cp}
              IN lines' = ls /\ total' = UpdateTotal(total, ls, c) /\ done("removed")
         [] OTHER -> done("invalid_action") /\ UNCHANGED <<total, lines>>

\* The manage-cart request of session s for the line whose id is in the
\* URL: the view authenticates the requester and looks the line up by id;
\* request.session is not read.
ManageCartRequest(s, c, p, size, action) ==
  /\ s \in Sessions
  /\ ManageCart(c, p, size, action)

\* ------------------------------------- cart requests, statement by statement
\* AddToCartView.post and ManageCartView.post split at their database
\* statements.  add-to-cart runs in transaction.atomic(): its row writes
\* are seen by others at commit.  manage-cart runs in autocommit: each
\* statement is committed when it ends.

\* the row a snapshot was read from, if it is still in the table
RowOf(snap) ==
  {l \in lines : \E r \in snap : SameKey({l}, r) # {} /\ l.n = r.n}

\* x has written the row and not committed: its row lock is held
HoldsRow(x, snap) ==
  /\ cw[x].kind = "add" /\ cw[x].at \in {"sum", "commit"}
  /\ ~cw[x].gone /\ cw[x].row # {} /\ cw[x].row = snap

\* x has inserted a row with this key and not committed
HoldsKey(x, k) ==
  /\ cw[x].kind = "add" /\ cw[x].at \in {"sum", "commit"}
  /\ (cw[x].row = {} \/ cw[x].gone)
  /\ \E r \in cw[x].new : SameKey({r}, k) # {}

\* a cart request ends with a response
CartRespond(w, op, res) ==
  /\ cw' = [cw EXCEPT ![w] = NoCartRequest]
  /\ lastOp' = [op |-> op, res |-> res]

\* the snapshots other requests hold of a row that is deleted now
MarkGone(c, rows) ==
  [x \in Procs |-> IF cw[x].row # {} /\ cw[x].row \subseteq rows
                   THEN [c[x] EXCEPT !.gone = TRUE] ELSE c[x]]

\* add-to-cart up to the lookup of the line: product, stock, cart
\* (the session holds one), cart.items.filter(...).first(), stock check
StepAddBegin(w, s, p, size, qty) ==
  LET c == session[s]
      found == FindLine(lines, c, p, size)
      row == IF found = {} THEN {} ELSE {FirstRow(found)}
      asked == IF found = {} THEN qty ELSE FirstRow(found).quantity + qty
  IN
  /\ cw[w].at = "idle"
  /\ c # NoCart
  /\ UNCHANGED <<call, vp, rd, exists, catalog, cache, in_stock, initStock, session,
                 nCarts, total, lines, orders, orderItems, pc, loc, lock>>
  /\ IF p \notin exists \/ ~catalog[p].is_available
     THEN CartRespond(w, "add", "error500")
     ELSE IF in_stock[p] <= 0 THEN CartRespond(w, "add", "out_of_stock")
     ELSE IF ExceedsStock(asked, in_stock[p])
     THEN /\ cw' = [cw EXCEPT ![w] = NoCartRequest]
          /\ lastOp' = [op |-> "add", res |-> "only_n_available",
                        available |-> in_stock[p]]
     ELSE /\ cw' = [cw EXCEPT ![w] =
                      [NoCartRequest EXCEPT !.at = "write", !.kind = "add",
                         !.cart = c, !.product = p, !.size = size, !.qty = qty,
                         !.row = row]]
          /\ UNCHANGED lastOp

\* cart_product.save() of the line found, or CartProduct.objects.create():
\* an UPDATE of a row that is gone turns into an INSERT
StepAddWrite(w) ==
  LET r == cw[w]
      k == [cart |-> r.cart, product |-> r.product, size |-> r.size]
      update == r.row # {} /\ ~r.gone
      base == IF r.row = {} THEN 0 ELSE FirstRow(r.row).quantity
      q == base + r.qty
      nl == [cart |-> r.cart, product |-> r.product, size |-> r.size,
             quantity |-> q, subtotal |-> LineSubtotal(r.product, q),
             n |-> IF r.row = {} THEN 0 ELSE FirstRow(r.row).n]
  IN
  /\ r.at = "write" /\ r.kind = "add"
  /\ UNCHANGED <<call, vp, rd, exists, catalog, cache, in_stock, initStock, session,
                 nCarts, total, lines, orders, orderItems, pc, loc, lock>>
  \* the UPDATE waits for the row lock, the INSERT of a key with a size
  \* for an uncommitted row with that key
  /\ \A x \in Procs \ {w} :
        IF update THEN ~HoldsRow(x, r.row)
        ELSE r.size # None => ~HoldsKey(x, k)
  /\ IF ~PositiveCheck(q) \/ r.product \notin exists
     THEN CartRespond(w, "add", "error500")
     ELSE IF ~update /\ r.size # None /\ SameKey(lines, k) # {}
     THEN CartRespond(w, "add", "duplicate_key")          \* IntegrityError
     ELSE /\ ~update => Cardinality(lines) < MaxLines
          /\ cw' = [cw EXCEPT ![w].at = "sum", ![w].new = {nl}]
          /\ UNCHANGED lastOp

\* the rows the statements of request w see
Visible(w) ==
  IF cw[w].kind = "add" /\ cw[w].new # {}
  THEN (lines \ (IF cw[w].gone THEN {} ELSE RowOf(cw[w].row))) \cup cw[w].new
  ELSE lines

\* update_total(): total = sum(item.subtotal for item in self.items.all())
StepSum(w) ==
  /\ cw[w].at = "sum"
  /\ cw' = [cw EXCEPT ![w].at = "commit",
                      ![w].tot = UpdateTotal(total, Visible(w), cw[w].cart)[cw[w].cart]]
  /\ UNCHANGED <<call, vp, rd, exists, catalog, cache, in_stock, initStock, session,
                 nCarts, total, lines, orders, orderItems, pc, loc, lock, lastOp>>

\* update_total(): self.save(); the atomic block commits.  The row written
\* becomes visible; an inserted row gets the next primary key.
StepAddCommit(w) ==
  LET r == cw[w]
      update == r.row # {} /\ ~r.gone
      nl == CHOOSE x \in r.new : TRUE
      row == IF update THEN nl
             ELSE [nl EXCEPT !.n = Cardinality(SameKey(lines, nl))]
  IN
  /\ r.at = "commit" /\ r.kind = "add"
  /\ lines' = (lines \ (IF update THEN RowOf(r.row) ELSE {})) \cup {row}
  /\ total' = [total EXCEPT ![r.cart] = r.tot]
  /\ CartRespond(w, "add", IF r.row # {} THEN "updated" ELSE "added")
  /\ UNCHANGED <<call, vp, rd, exists, catalog, cache, in_stock, initStock, session,
                 nCarts, orders, orderItems, pc, loc, lock>>

\* manage-cart up to the stock check: the row of the URL's id is read
StepManageBegin(w, c, p, size, action) ==
  LET found == FindLine(lines, c, p, size)
  IN
  /\ cw[w].at = "idle"
  /\ UNCHANGED <<call, vp, rd, exists, catalog, cache, in_stock, initStock, session,
                 nCarts, total, lines, orders, orderItems, pc, loc, lock>>
  /\ IF found = {} THEN CartRespond(w, "manage", "error500")
     ELSE IF action \notin {"inc", "dcr", "rmv"}
     THEN CartRespond(w, "manage", "invalid_action")
     ELSE IF action = "inc" /\ ExceedsStock(FirstRow(found).quantity + 1, in_stock[p])
     THEN /\ cw' = [cw EXCEPT ![w] = NoCartRequest]
          /\ lastOp' = [op |-> "manage", res |-> "only_n_available",
                        available |-> in_stock[p]]
     ELSE /\ cw' = [cw EXCEPT ![w] =
                      [NoCartRequest EXCEPT !.at = "write", !.kind = "manage",
                         !.cart = c, !.product = p, !.size = size,
                         !.action = action, !.row = {FirstRow(found)}]]
          /\ UNCHANGED lastOp

\* cart_product.save() or cart_product.delete(), committed at once
StepManageWrite(w) ==
  LET r == cw[w]
      cp == FirstRow(r.row)
      q == IF r.action = "inc" THEN cp.quantity + 1 ELSE cp.quantity - 1
      remove == r.action = "rmv" \/ (r.action = "dcr" /\ q = 0)
      nl == [cp EXCEPT !.quantity = q, !.subtotal = LineSubtotal(r.product, q)]
  IN
  /\ r.at = "write" /\ r.kind = "manage"
  /\ \A x \in Procs \ {w} : ~HoldsRow(x, r.row)          \* row lock
  /\ UNCHANGED <<call, vp, rd, exists, catalog, cache, in_stock, initStock, session,
                 nCarts, total, orders, orderItems, pc, loc, lock>>
  /\ IF remove
     THEN /\ lines' = lines \ RowOf(r.row)
          /\ cw' = [MarkGone(cw, RowOf(r.row)) EXCEPT ![w].at = "sum"]
          /\ UNCHANGED lastOp
     ELSE IF ~PositiveCheck(q) \/ r.product \notin exists
     THEN CartRespond(w, "manage", "error500") /\ UNCHANGED lines
     ELSE /\ lines' = (lines \ RowOf(r.row)) \cup {nl}
          /\ cw' = [cw EXCEPT ![w].at = "sum"]
          /\ UNCHANGED lastOp

\* update_total(): self.save() of manage-cart
StepManageSave(w) ==
  LET r == cw[w]
  IN
  /\ r.at = "commit" /\ r.kind = "manage"
  /\ total' = [total EXCEPT ![r.cart] = r.tot]
  /\ CartRespond(w, "manage",
                 IF r.action = "inc" THEN "increased"
                 ELSE IF RowOf(r.row) = {} THEN "removed" ELSE "decreased")
  /\ UNCHANGED <<call, vp, rd, exists, catalog, cache, in_stock, initStock, session,
                 nCarts, lines, orders, orderItems, pc, loc, lock>>

\* ------------------------------------------------ ProductDetailView.delete
\* OrderItem.product declared with on_delete=CASCADE
OnDeleteCascade(items, p) == {i \in items : i.product # p}

\* OrderItem.product: on_delete=SET_NULL
OnDeleteSetNull(items, p) ==
  {IF i.product = p THEN [i EXCEPT !.product = None] ELSE i : i \in items}

\* Runs while no checkout transaction is open.  The collector cascades to
\* the CartProduct rows and nulls OrderItem.product; Cart.total is not
\* touched.
ProductDelete(p) ==
  /\ p \in exists
  /\ \A w \in Procs : pc[w] = "idle"
  /\ exists' = exists \ {p}
  /\ in_stock' = [in_stock EXCEPT ![p] = 0]
  /\ lines' = {l \in lines : l.product # p}
  /\ orderItems' = OnDeleteSetNull(orderItems, p)
  /\ cache' = ProductCacheClear(cache, catalog[p].category)
  /\ lastOp' = [op |-> "delete_product", res |-> "deleted"]
  /\ UNCHANGED <<call, vp, cw, rd, catalog, initStock, session, nCarts, total,
                 orders, pc, loc, lock>>

\* --------------------------------------------------- ProductDetailView.put
\* A partial update of one field of the product (ProductSerializer has
\* fields = '__all__'), run while no checkout transaction is open.  The
\* row is saved; no CartProduct and no OrderItem row is written.
ProductUpdate(p, field, value) ==
  /\ \A w \in Procs : pc[w] = "idle"
  /\ UNCHANGED <<call, vp, cw, rd, exists, initStock, session, nCarts, total, lines,
                 orders, orderItems, pc, loc, lock>>
  /\ IF p \notin exists
     THEN /\ lastOp' = [op |-> "update_product", res |-> "error500"]
          /\ UNCHANGED <<catalog, in_stock, cache>>
     ELSE /\ lastOp' = [op |-> "update_product", res |-> "updated"]
          /\ IF field = "in_stock"
             THEN in_stock' = [in_stock EXCEPT ![p] = value] /\ UNCHANGED catalog
             ELSE /\ catalog' = [catalog EXCEPT ![p][field] = value]
                  /\ UNCHANGED in_stock
          \* Product.save() clears the lists of the category it now has
          /\ cache' = ProductCacheClear(cache, catalog'[p].category)

\* ---------------------------------------------------- ProductListView.post
\* A product is created in category c with stock n.
ProductCreate(p, c, n) ==
  /\ p \notin exists
  /\ \A w \in Procs : pc[w] = "idle"
  /\ exists' = exists \cup {p}
  /\ catalog' = [catalog EXCEPT ![p] = [InitialCatalog[p] EXCEPT !.category = c]]
  /\ in_stock' = [in_stock EXCEPT ![p] = n]
  /\ initStock' = [initStock EXCEPT ![p] = n]
  /\ cache' = ProductCacheClear(cache, c)
  /\ lastOp' = [op |-> "create_product", res |-> "created"]
  /\ UNCHANGED <<call, vp, cw, rd, session, nCarts, total, lines, orders, orderItems,
                 pc, loc, lock>>

\* ------------------------------------------------------------ CheckoutView
\* committed Order rows plus the rows other open transactions have inserted
Pending(w) == pc[w] \in {"item_read", "item_write", "commit"}

\* the value of Product.in_stock a statement of w's transaction reads
ReadStock(w, p) ==
  IF loc[w].writes[p] # NoWrite THEN loc[w].writes[p] ELSE in_stock[p]

\* a request ends: its response is recorded and the worker is free again
Finish(w, res) ==
  /\ pc' = [pc EXCEPT ![w] = "idle"]
  /\ loc' = [loc EXCEPT ![w] = EmptyLoc]
  /\ lastOp' = [op |-> "checkout", res |-> res]

\* the same failure without transaction.atomic(): every statement has
\* committed on its own, so the stock written so far stays
RollbackKeepsWrites(w, why) ==
  /\ pc' = [pc EXCEPT ![w] = "idle"]
  /\ loc' = [loc EXCEPT ![w] = EmptyLoc]
  /\ lastOp' = [op |-> "checkout", res |-> "error500", why |-> why]
  /\ lock' = [p \in Products |-> IF lock[p] = w THEN None ELSE lock[p]]
  /\ in_stock' = [p \in Products |->
                    IF loc[w].writes[p] # NoWrite THEN loc[w].writes[p] ELSE in_stock[p]]
  /\ UNCHANGED <<call, vp, cw, rd, exists, catalog, cache, initStock, session, nCarts, total, lines,
                 orders, orderItems>>

\* an exception leaves the atomic block: the transaction is rolled back,
\* its row locks are released, the handler answers 500 with str(e)
Rollback(w, why) ==
  /\ pc' = [pc EXCEPT ![w] = "idle"]
  /\ loc' = [loc EXCEPT ![w] = EmptyLoc]
  /\ lastOp' = [op |-> "checkout", res |-> "error500", why |-> why]
  /\ lock' = [p \in Products |-> IF lock[p] = w THEN None ELSE lock[p]]
  /\ UNCHANGED <<call, vp, cw, rd, exists, catalog, cache, in_stock, initStock, session, nCarts, total, lines,
                 orders, orderItems>>

\* cart lookup, emptiness check, stock validation, serializer validation
CheckoutBegin(w, s, valid, body) ==
  /\ pc[w] = "idle"
  /\ Cardinality(orders) + Cardinality({x \in Procs : pc[x] # "idle"}) < MaxOrders
  /\ UNCHANGED <<call, vp, cw, rd, exists, catalog, cache, in_stock, initStock, session, nCarts, total, lines,
                 orders, orderItems, lock>>
  /\ LET c == session[s] IN
     IF c = NoCart THEN Finish(w, "cart_not_found")
     ELSE IF CartLines(c) = {} THEN Finish(w, "cart_empty")
     ELSE IF \E l \in CartLines(c) : l.quantity > in_stock[l.product]
          THEN Finish(w, "insufficient_stock")
     ELSE IF ~valid THEN Finish(w, "invalid_data")
     ELSE /\ pc' = [pc EXCEPT ![w] = "draw"]
          /\ loc' = [loc EXCEPT ![w] = [EmptyLoc EXCEPT !.sess = s, !.cart = c,
                                                        !.amount = total[c],
                                                        !.data = ValidatedData(body)]]
          /\ UNCHANGED lastOp

\* order_number declared without unique=True
UniqueRefOnly(number, ref) ==
  \A o \in orders : o.ref # ref

\* UNIQUE(order_number), UNIQUE(ref) against the committed rows
UniqueOrder(number, ref) ==
  \A o \in orders : o.order_number # number /\ o.ref # ref

\* Order.save(): an order_number and a ref are generated when the instance
\* has none.  order_number n is drawn; ref r is the draw on which the loop
\* "redraw while a row with this ref exists" ends
CheckoutDrawTokens(w, n, r) ==
  /\ pc[w] = "draw"
  /\ \A o \in orders : o.ref # r
  /\ loc' = [loc EXCEPT
        ![w].number = OrderField(loc[w].data, NoBody, "order_number", n),
        ![w].ref = OrderField(loc[w].data, NoBody, "ref", r)]
  /\ pc' = [pc EXCEPT ![w] = "insert"]
  /\ UNCHANGED <<call, vp, cw, rd, exists, catalog, cache, in_stock, initStock, session, nCarts, total, lines,
                 orders, orderItems, lock, lastOp>>

\* INSERT of the Order row, then the query of cart.items.all()
CheckoutInsertOrder(w) ==
  /\ pc[w] = "insert"
  \* an uncommitted row with the same key makes the INSERT wait
  /\ \A x \in Procs \ {w} : Pending(x) =>
        loc[x].number # loc[w].number /\ loc[x].ref # loc[w].ref
  /\ IF ~UniqueOrder(loc[w].number, loc[w].ref)
     THEN Rollback(w, "unique")
     ELSE /\ \E sq \in RowOrders(CartLines(loc[w].cart)) :
               /\ loc' = [loc EXCEPT ![w].items = sq, ![w].idx = 1]
               /\ pc' = [pc EXCEPT ![w] = IF Len(sq) = 0 THEN "commit" ELSE "item_read"]
          /\ UNCHANGED <<call, vp, cw, rd, exists, catalog, cache, in_stock, initStock, session, nCarts, total,
                         lines, orders, orderItems, lock, lastOp>>

\* cart_item.product is fetched; the OrderItem row is inserted
CheckoutItemRead(w) ==
  /\ pc[w] = "item_read"
  /\ LET ci == loc[w].items[loc[w].idx]
         p == ci.product
     IN IF p \notin exists
        THEN Rollback(w, "does_not_exist")
        ELSE /\ loc' = [loc EXCEPT
                  ![w].snap = ReadStock(w, p),
                  ![w].oitems = @ \cup {[n |-> loc[w].idx, product |-> p,
                       product_name |-> Title(p), product_price |-> FinalPrice(p),
                       quantity |-> ci.quantity, selected_size |-> ci.size,
                       subtotal |-> ci.subtotal]}]
             /\ pc' = [pc EXCEPT ![w] = "item_write"]
             /\ UNCHANGED <<call, vp, cw, rd, exists, catalog, cache, in_stock, initStock, session, nCarts, total,
                            lines, orders, orderItems, lock, lastOp>>

\* product.in_stock -= cart_item.quantity; product.save()
CheckoutItemWrite(w) ==
  /\ pc[w] = "item_write"
  /\ LET ci == loc[w].items[loc[w].idx]
         p == ci.product
         new_stock == loc[w].snap - ci.quantity
     IN
     /\ lock[p] \in {None, w}                 \* else the UPDATE waits
     /\ IF ~PositiveCheck(new_stock)
        THEN Rollback(w, "check")
        ELSE /\ lock' = [lock EXCEPT ![p] = w]
             /\ loc' = [loc EXCEPT ![w].writes[p] = new_stock, ![w].idx = @ + 1]
             /\ pc' = [pc EXCEPT ![w] = IF loc[w].idx = Len(loc[w].items)
                                        THEN "commit" ELSE "item_read"]
             /\ cache' = ProductCacheClear(cache, catalog[p].category)
             /\ UNCHANGED <<call, vp, cw, rd, exists, catalog, in_stock, initStock, session, nCarts, total,
                            lines, orders, orderItems, lastOp>>

\* del request.session['cart_id']; the atomic block exits and commits
CheckoutCommit(w) ==
  /\ pc[w] = "commit"
  /\ LET id == Cardinality(orders) + 1
         \* serializer.save(cart=, user=, amount=, subtotal=, order_status=)
         kwargs == [cart |-> loc[w].cart, user |-> UserOf(loc[w].sess),
                    amount |-> loc[w].amount, subtotal |-> loc[w].amount,
                    order_status |-> "pending"]
         col(f, default) == OrderField(loc[w].data, kwargs, f, default)
     IN /\ orders' = orders \cup
             {[id |-> id, order_number |-> loc[w].number, ref |-> loc[w].ref,
               cart |-> col("cart", NoCart), user |-> col("user", None),
               order_by |-> col("order_by", None),
               amount |-> col("amount", 0), subtotal |-> col("subtotal", 0),
               order_status |-> col("order_status", "pending"),
               payment_complete |-> col("payment_complete", FALSE)]}
        /\ orderItems' = orderItems \cup
             {[order |-> id, n |-> i.n, product |-> i.product,
               product_name |-> i.product_name, product_price |-> i.product_price,
               quantity |-> i.quantity, selected_size |-> i.selected_size,
               subtotal |-> i.subtotal] : i \in loc[w].oitems}
  /\ in_stock' = [p \in Products |->
                    IF loc[w].writes[p] # NoWrite THEN loc[w].writes[p] ELSE in_stock[p]]
  /\ lock' = [p \in Products |-> IF lock[p] = w THEN None ELSE lock[p]]
  /\ session' = [session EXCEPT ![loc[w].sess] = NoCart]
  /\ Finish(w, "created")
  /\ UNCHANGED <<call, vp, cw, rd, exists, catalog, cache, initStock, nCarts, total, lines>>

\* one step of a checkout request of worker w; draws are the
\* (order_number, ref) pairs the generators can return, bodies the request
\* bodies sent
CheckoutStep(w, draws, bodies) ==
  \/ \E s \in Sessions, valid \in BOOLEAN, body \in bodies :
       CheckoutBegin(w, s, valid, body)
  \/ \E d \in draws : CheckoutDrawTokens(w, d[1], d[2])
  \/ CheckoutInsertOrder(w)
  \/ CheckoutItemRead(w)
  \/ CheckoutItemWrite(w)
  \/ CheckoutCommit(w)

\* Concurrent checkouts of carts that hold product P in its sizes; every
\* draw of a token pair is one of FreshDraws.
Next ==
  \/ \E s \in Sessions, size \in Sizes, qty \in Quantities :
       AddToCart(s, "P", size, qty)
  \/ \E w \in Procs : CheckoutStep(w, FreshDraws, {NoBody})

Spec == Init /\ [][Next]_vars

\* Concurrent Order.save() with every combination of drawn tokens.
OrderNext ==
  \/ \E s \in Sessions, qty \in Quantities : AddToCart(s, "P", None, qty)
  \/ \E w \in Procs : CheckoutStep(w, OrderNumbers \X RefTokens, {NoBody})

SpecOrder == Init /\ [][OrderNext]_vars

SpecPaystack == Init /\ [][PaystackNext]_vars

SpecVerifyPayment == Init /\ [][VerifyPaymentNext]_vars

\* -------------------------------------------------------- PaymentPageView
\* the amount in major units, without the conversion to kobo
AmountValueMajor(amount) ==
  LET d == [whole |-> amount \div 100, frac |-> amount % 100]
  IN d.whole

\* Order.amount_value(): int(self.amount * 100) of the Decimal amount
\* whole.frac
AmountValue(amount) ==
  LET d == [whole |-> amount \div 100, frac |-> amount % 100]
  IN d.whole * 100 + d.frac

\* What the call to transaction/initialize can return: the request or the
\* JSON parsing raises, or a JSON body with a status flag and, when data
\* is present, the authorization url.
InitResponses ==
  {[kind |-> "neterr", status |-> FALSE, data |-> "missing"]}
  \cup {[kind |-> "json", status |-> st, data |-> d] :
          st \in BOOLEAN, d \in {"missing", "url"}}

\* PaymentPageView.get for order id, requested by user; calls are the
\* requests sent to the provider
PaymentPage(id, user, resp) ==
  LET found == {o \in orders : o.id = id /\ o.user = user}
      done(res, calls) ==
        lastOp' = [op |-> "payment_page", res |-> res, id |-> id, calls |-> calls]
  IN
  /\ UNCHANGED <<call, vp, cw, rd, exists, catalog, cache, in_stock, initStock, session, nCarts,
                 total, lines, orders, orderItems, pc, loc, lock>>
  /\ IF found = {} THEN done("error500", <<>>)            \* get_object_or_404
     ELSE LET o == CHOOSE x \in found : TRUE
              data == [amount |-> AmountValue(o.amount), reference |-> o.ref]
          IN IF o.payment_complete THEN done("already_completed", <<>>)
             ELSE IF resp.kind = "neterr" THEN done("error500", <<data>>)
             ELSE IF resp.status
                  THEN IF resp.data = "missing"
                       THEN done("error500", <<data>>)       \* KeyError
                       ELSE done("initiated", <<data>>)
             ELSE done("initiation_failed", <<data>>)

\* response_data["data"]["amount"] / 100: the paid amount in major units
PaidAmount(kobo) == [whole |-> kobo \div 100, frac |-> kobo % 100]

\* float(order.amount): the Decimal amount (kept in hundredths) in major units
AsFloat(amount) == [whole |-> amount \div 100, frac |-> amount % 100]

\* amounts in kobo a provider response reports
ProviderAmounts == {1000, 2000, 2500}

\* What the provider call can return: the request or the JSON parsing
\* raises ("neterr"), or a JSON body with a status flag and, when data is
\* present, the transaction status and the paid amount in kobo.
NoData == "missing"
Responses ==
  {[kind |-> "neterr", status |-> FALSE, data |-> NoData, amount |-> 0]}
  \cup {[kind |-> "json", status |-> st, data |-> d, amount |-> 0] :
          st \in BOOLEAN, d \in {NoData, "abandoned", "failed"}}
  \cup {[kind |-> "json", status |-> st, data |-> "success", amount |-> a] :
          st \in BOOLEAN, a \in ProviderAmounts}

\* verification that trusts the transaction status and skips the amount
VerifyOutcomeAnyAmount(o, resp) ==
  IF resp.kind = "neterr" THEN [order |-> o, res |-> "error500"]
  ELSE IF resp.data = NoData THEN [order |-> o, res |-> "error500"]
  ELSE IF resp.status /\ resp.data = "success"
       THEN [order |-> [o EXCEPT !.payment_complete = TRUE,
                                 !.order_status = "processing"],
             res |-> "verified"]
  ELSE IF resp.data = "abandoned"
       THEN [order |-> [o EXCEPT !.order_status = "pending"], res |-> "abandoned"]
  ELSE [order |-> o, res |-> "verification_failed"]

\* verification whose abandoned branch cancels an order that is still
\* pending and reopens any other
VerifyOutcomeToggle(o, resp) ==
  IF resp.kind = "neterr" THEN [order |-> o, res |-> "error500"]
  ELSE IF resp.data = NoData THEN [order |-> o, res |-> "error500"]
  ELSE IF resp.status /\ resp.data = "success"
       THEN IF PaidAmount(resp.amount) = AsFloat(o.amount)
            THEN [order |-> [o EXCEPT !.payment_complete = TRUE,
                                      !.order_status = "processing"],
                  res |-> "verified"]
            ELSE [order |-> o, res |-> "amount_mismatch"]
  ELSE IF resp.data = "abandoned"
       THEN [order |-> [o EXCEPT !.order_status =
                          IF o.order_status = "pending" THEN "cancelled" ELSE "pending"],
             res |-> "abandoned"]
  ELSE [order |-> o, res |-> "verification_failed"]

\* the body of VerifyPaymentView.get after the order was found:
\* the order as saved and the response
VerifyOutcome(o, resp) ==
  IF resp.kind = "neterr" THEN [order |-> o, res |-> "error500"]
  ELSE IF resp.data = NoData THEN [order |-> o, res |-> "error500"]   \* KeyError
  ELSE IF resp.status /\ resp.data = "success"
       THEN IF PaidAmount(resp.amount) = AsFloat(o.amount)
            THEN [order |-> [o EXCEPT !.payment_complete = TRUE,
                                      !.order_status = "processing"],
                  res |-> "verified"]
            ELSE [order |-> o, res |-> "amount_mismatch"]
  ELSE IF resp.data = "abandoned"
       THEN [order |-> [o EXCEPT !.order_status = "pending"], res |-> "abandoned"]
  ELSE [order |-> o, res |-> "verification_failed"]

\* a save() that draws a new order_number and ref every time
OrderSaveRegenerates(o, number, ref) ==
  [o EXCEPT !.order_number = number, !.ref = ref]

\* Order.save() of an existing row: order_number and ref are generated
\* only when the instance has none; number and ref are what the generators
\* would return
OrderSave(o, number, ref) ==
  [o EXCEPT !.order_number = IF @ = None THEN number ELSE @,
            !.ref = IF @ = None THEN ref ELSE @]

Verify(ref, resp) ==
  LET found == {o \in orders : o.ref = ref}
      \* rep: this request repeats the request that completed just before
      done(res) == lastOp' = [op |-> "verify", res |-> res, ref |-> ref, resp |-> resp,
                              rep |-> (lastOp.op = "verify" /\ lastOp.ref = ref
                                       /\ lastOp.resp = resp)]
  IN
  /\ UNCHANGED <<call, vp, cw, rd, exists, catalog, cache, in_stock, initStock, session, nCarts, total, lines,
                 orderItems, pc, loc, lock>>
  /\ IF found = {}
     THEN done("error500") /\ UNCHANGED orders          \* get_object_or_404
     ELSE LET o == CHOOSE x \in found : TRUE
              out == VerifyOutcome(o, resp)
          IN /\ IF out.res \in {"verified", "abandoned"}           \* order.save()
                THEN \E d \in FreshDraws :
                       orders' = (orders \ {o}) \cup {OrderSave(out.order, d[1], d[2])}
                ELSE orders' = (orders \ {o}) \cup {out.order}
             /\ done(out.res)

\* ---------------------------------------------------------------- OrderAdmin
\* ORDER_STATUS: the choices of Order.order_status
OrderStatuses ==
  {"pending", "processing", "shipped", "delivered", "cancelled", "refunded"}

\* The admin change list saves an order row with the edited columns
\* list_editable = ['order_status', 'payment_complete'].
AdminEdit(ref, st, paid) ==
  /\ \A w \in Procs : pc[w] = "idle"
  /\ \E o \in orders :
       /\ o.ref = ref
       /\ orders' = (orders \ {o}) \cup
                      {[o EXCEPT !.order_status = st, !.payment_complete = paid]}
  /\ lastOp' = [op |-> "admin", res |-> "saved"]
  /\ UNCHANGED <<call, vp, cw, rd, exists, catalog, cache, in_stock, initStock, session, nCarts,
                 total, lines, orderItems, pc, loc, lock>>

\* One session shops while the catalogue loses products, one request at a
\* time.
ShopAdd(p, qty) == pc["w1"] = "idle" /\ AddToCart("s1", p, None, qty)

ShopNext ==
  \/ \E p \in Products, qty \in Quantities : ShopAdd(p, qty)
  \/ \E p \in Products : ProductDelete(p)
  \/ CheckoutStep("w1", FreshDraws, {NoBody})

SpecShop == Init /\ [][ShopNext]_vars

\* One session buys product P while P is edited and deleted, one request
\* at a time.
\* the edits of product P: a new title, a new price, another stock
ShopEdits ==
  {<<"title", "P">>, <<"title", "P (new)">>, <<"price", 1000>>, <<"price", 1200>>}
  \cup {<<"in_stock", n>> : n \in 0..MaxStock}

CatalogNext ==
  \/ \E qty \in Quantities : ShopAdd("P", qty)
  \/ ProductDelete("P")
  \/ \E e \in ShopEdits : ProductUpdate("P", e[1], e[2])
  \/ CheckoutStep("w1", FreshDraws, {NoBody})

SpecCatalog == Init /\ [][CatalogNext]_vars

\* Orders placed by one session and their payment verification, one
\* request at a time.
PayVerify(ref, resp) == pc["w1"] = "idle" /\ Verify(ref, resp)

PayPage(id, user, resp) == pc["w1"] = "idle" /\ PaymentPage(id, user, resp)

PayNext ==
  \/ \E p \in Products, qty \in Quantities : ShopAdd(p, qty)
  \/ CheckoutStep("w1", FreshDraws, {NoBody})
  \/ \E ref \in RefTokens, resp \in Responses : PayVerify(ref, resp)
  \/ \E id \in 1..MaxOrders, user \in Sessions, resp \in InitResponses :
       PayPage(id, user, resp)

SpecPay == Init /\ [][PayNext]_vars

\* One order is placed, staff move it through its statuses in the admin and
\* the payment callback arrives at any time.
AdminNext ==
  \/ ShopAdd("P", 1)
  \/ CheckoutStep("w1", FreshDraws, {NoBody})
  \/ \E ref \in RefTokens, resp \in Responses : PayVerify(ref, resp)
  \/ \E ref \in RefTokens, st \in OrderStatuses, paid \in BOOLEAN :
       AdminEdit(ref, st, paid)

SpecAdmin == Init /\ [][AdminNext]_vars

\* One session checks out with any request body, one request at a time.
BodyNext ==
  \/ \E p \in Products, qty \in Quantities : ShopAdd(p, qty)
  \/ CheckoutStep("w1", OrderNumbers \X RefTokens, Bodies)

SpecBody == Init /\ [][BodyNext]_vars

\* Product P is edited, deleted, created again and sold while the cached
\* category pages are read, one request at a time.
CacheEdits ==
  {<<"category", c>> : c \in Categories}
  \cup {<<"is_available", b>> : b \in BOOLEAN}
  \cup {<<"in_stock", n>> : n \in 0..MaxStock}

CacheNext ==
  \/ \E e \in CacheEdits : ProductUpdate("P", e[1], e[2])
  \/ ProductDelete("P")
  \/ \E c \in Categories : ProductCreate("P", c, MaxStock)
  \/ \E c \in Categories : GetAllProducts(c)
  \/ \E c \in Categories : GetAllProductsCount(c)
  \/ \E c \in Categories : CacheExpire(c)
  \/ ShopAdd("P", 1)
  \/ CheckoutStep("w1", FreshDraws, {NoBody})

SpecCache == Init /\ [][CacheNext]_vars

\* A category page is read, its read split at the cache miss, while the
\* stock and the availability of product P are edited.
StaleEdits ==
  {<<"is_available", b>> : b \in BOOLEAN}
  \cup {<<"in_stock", n>> : n \in 0..MaxStock}

StaleNext ==
  \/ \E e \in StaleEdits : ProductUpdate("P", e[1], e[2])
  \/ \E c \in Categories : StepReadGet(c)
  \/ StepReadStore
  \/ \E c \in Categories : CacheExpire(c)

SpecStale == Init /\ [][StaleNext]_vars

\* Two requests at a time on the cart of one session: the cart is made by
\* a first add-to-cart; then add-to-cart and manage-cart requests for
\* product P run statement by statement.
RaceFirstAdd(p, size) ==
  /\ session["s1"] = NoCart
  /\ AddToCart("s1", p, size, 1)

RaceNext ==
  \/ \E size \in Sizes : RaceFirstAdd("P", size)
  \/ \E w \in Procs, size \in Sizes : StepAddBegin(w, "s1", "P", size, 1)
  \/ \E w \in Procs : StepAddWrite(w)
  \/ \E w \in Procs : StepSum(w)
  \/ \E w \in Procs : StepAddCommit(w)
  \/ \E a \in CartActions : StepManageBegin("w2", 1, "P", None, a)
  \/ StepManageWrite("w2")
  \/ StepManageSave("w2")

\* only product P is requested: the stock of Q is left at its maximum
InitRace == Init /\ in_stock["Q"] = MaxStock

SpecRace == InitRace /\ [][RaceNext]_vars

\* Two add-to-cart requests at a time, and no other request.
RaceAddNext ==
  \/ \E size \in Sizes : RaceFirstAdd("P", size)
  \/ \E w \in Procs, size \in Sizes : StepAddBegin(w, "s1", "P", size, 1)
  \/ \E w \in Procs : StepAddWrite(w)
  \/ \E w \in Procs : StepSum(w)
  \/ \E w \in Procs : StepAddCommit(w)

SpecRaceAdd == InitRace /\ [][RaceAddNext]_vars

\* Cart requests of two sessions, one request at a time.
CartNext ==
  \/ \E s \in Sessions, p \in Products, size \in Sizes, qty \in AnyQuantities :
       AddToCart(s, p, size, qty)
  \/ \E s \in Sessions, c \in 1..MaxCarts, p \in Products, size \in Sizes,
        a \in CartActions :
       ManageCartRequest(s, c, p, size, a)

SpecCart == Init /\ [][CartNext]_vars

\* ================================================================ claims
\* C1: for every product, in_stock >= 0 in every reachable state, under
\* every interleaving of add-to-cart and checkout requests.
C1_StockNeverNegative == \A p \in exists : in_stock[p] >= 0

\* the last unit is gone and the checkout that ended last was refused
\* inside its transaction
C1_Witness ==
  /\ in_stock["P"] = 0
  /\ \E i \in orderItems : i.product = "P"
  /\ lastOp.op = "checkout" /\ lastOp.res = "error500" /\ lastOp.why = "check"

\* an order made of exactly one unit of P
OneUnitOrder(o) ==
  \E i \in orderItems : ItemsOf(o) = {i} /\ i.product = "P" /\ i.quantity = 1

\* C2: when P has stock 1 and two sessions each hold a cart with one unit
\* of P, their two checkouts never both create an order.
C2_LastUnitSoldOnce ==
  initStock["P"] = 1 =>
    ~ \E o1, o2 \in orders :
        o1.cart # o2.cart /\ OneUnitOrder(o1) /\ OneUnitOrder(o2)

\* C3: for every product, initial stock minus current stock equals the sum
\* of the quantities of the order items created for it.
C3_NoUnitSoldTwice ==
  \A p \in exists :
    initStock[p] - in_stock[p] =
      SumField({i \in orderItems : i.product = p}, "quantity")

\* C4: a step sets payment_complete on an order only if it is a verify of
\* that order's ref whose response has status true, transaction status
\* success and a paid amount equal to the order's amount, and it sets
\* status processing with it; a successful transaction with another amount
\* is answered "amount mismatch" and changes no order.
C4_PaidOnlyOnAmountMatch ==
  [][ /\ \A o2 \in orders' :
           (o2.payment_complete /\ \A o1 \in orders : o1.id = o2.id => ~o1.payment_complete)
             => /\ lastOp'.op = "verify"
                /\ lastOp'.ref = o2.ref
                /\ lastOp'.resp.kind = "json"
                /\ lastOp'.resp.status
                /\ lastOp'.resp.data = "success"
                /\ lastOp'.resp.amount = o2.amount
                /\ o2.order_status = "processing"
      /\ (/\ lastOp'.op = "verify"
          /\ lastOp'.resp.kind = "json"
          /\ lastOp'.resp.status
          /\ lastOp'.resp.data = "success"
          /\ \E o \in orders : o.ref = lastOp'.ref /\ o.amount # lastOp'.resp.amount)
             => lastOp'.res = "amount_mismatch" /\ orders' = orders
    ]_vars

\* Scenario D: the provider reports 2000 for an order of 25.00
C4_Witness ==
  /\ lastOp.op = "verify" /\ lastOp.res = "amount_mismatch"
  /\ lastOp.resp.amount = 2000
  /\ \E o \in orders : o.ref = lastOp.ref /\ o.amount = 2500 /\ ~o.payment_complete

\* C5: a checkout request that answers with an error creates no Order and
\* no OrderItem and leaves every product's stock as it was.
C5_FailedCheckoutHasNoEffect ==
  [][ (lastOp'.op = "checkout" /\ lastOp'.res # "created")
        => UNCHANGED <<orders, orderItems, in_stock>> ]_vars

\* a transaction was rolled back after an earlier order took stock
C5_Witness ==
  /\ lastOp.op = "checkout" /\ lastOp.res = "error500" /\ lastOp.why = "check"
  /\ orders # {} /\ in_stock["P"] < initStock["P"]

\* C6: after every add-to-cart and manage-cart request, run one after the
\* other, cart.total equals the sum of the subtotals of the cart's lines.
C6_TotalIsSumOfLines ==
  \A c \in 1..nCarts : total[c] = SumField(CartLines(c), "subtotal")

\* a cart of two lines after a decrement
C6_Witness ==
  /\ lastOp.op = "manage" /\ lastOp.res = "decreased"
  /\ \E c \in 1..nCarts : Cardinality(CartLines(c)) = 2 /\ total[c] = 1500

\* C7: no two orders share an order_number and no two orders share a ref.
C7_UniqueNumberAndRef ==
  \A o1, o2 \in orders :
    o1 # o2 => o1.order_number # o2.order_number /\ o1.ref # o2.ref

\* an order exists and the INSERT of a colliding one was refused
C7_Witness ==
  /\ orders # {}
  /\ lastOp.op = "checkout" /\ lastOp.res = "error500" /\ lastOp.why = "unique"

\* C8: a verify request that repeats the request completed just before it
\* (same ref, same provider response) changes no order and gets the same
\* answer.
C8_VerifyIdempotent ==
  [][ (lastOp'.op = "verify" /\ lastOp'.rep)
        => /\ orders' = orders
           /\ lastOp.op = "verify"
           /\ lastOp'.res = lastOp.res ]_vars

\* a verified order verified again
C8_Witness ==
  /\ lastOp.op = "verify" /\ lastOp.rep /\ lastOp.res = "verified"
  /\ \E o \in orders : o.ref = lastOp.ref /\ o.payment_complete
                       /\ o.order_status = "processing"

\* C9: a verify that ends with an amount mismatch, a transaction status
\* other than success or abandoned, an unsuccessful provider response, or
\* a network or parse error changes no field of any order.
C9_FailedVerifyChangesNothing ==
  [][ (/\ lastOp'.op = "verify"
       /\ \/ lastOp'.res \in {"amount_mismatch", "verification_failed", "error500"}
          \/ lastOp'.resp.kind = "neterr"
          \/ ~lastOp'.resp.status
          \/ lastOp'.resp.data \notin {"success", "abandoned"})
        => orders' = orders ]_vars

\* C10: every order's amount equals the sum of the subtotals of its order
\* items.
C10_AmountIsSumOfItems ==
  \A o \in orders : o.amount = SumField(ItemsOf(o), "subtotal")

\* the line of product p and size in the cart of session s
LineOf(ls, s, p, size) ==
  {l \in ls : l.cart = session[s] /\ l.product = p /\ l.size = size}

\* C11: an add-to-cart for a product and size already in the session's cart
\* adds the requested quantity to that line only if the new quantity is at
\* most the product's stock; when the new quantity exceeds the stock the
\* request is refused with the available stock in the answer, and the line
\* and the cart total stay as they were.
C11_ExistingLineStockCheck ==
  [][ \A s \in Sessions, p \in Products, size \in Sizes, qty \in AnyQuantities :
        (/\ lastOp'.op = "add" /\ session[s] # NoCart
         /\ LineOf(lines, s, p, size) # {} /\ p \in exists /\ in_stock[p] > 0
         /\ AddToCart(s, p, size, qty))
        => LET cp == CHOOSE l \in LineOf(lines, s, p, size) : TRUE
           IN IF cp.quantity + qty > in_stock[p]
              THEN /\ lastOp'.res = "only_n_available"
                   /\ lastOp'.available = in_stock[p]
                   /\ lines' = lines /\ total' = total
              ELSE lastOp'.res = "updated" =>
                     \E l \in LineOf(lines', s, p, size) :
                        /\ l.quantity = cp.quantity + qty
                        /\ l.quantity <= in_stock[p]
                        /\ lines' = (lines \ {cp}) \cup {l}
    ]_vars

\* Scenario E at the model's size: the line holds the whole stock of 2 and
\* one more unit is refused with "only 2 available"
C11_Witness ==
  /\ lastOp.op = "add" /\ lastOp.res = "only_n_available" /\ lastOp.available = 2
  /\ \E l \in lines : l.quantity = 2 /\ in_stock[l.product] = 2
                       /\ total[l.cart] = SumField(CartLines(l.cart), "subtotal")

\* C12: a cart never holds two lines for the same product and selected
\* size, and an add-to-cart for a product and size already in the cart
\* raises that line's quantity and leaves the number of lines as it was.
C12_OneLinePerProductAndSize ==
  [][ /\ \A l1, l2 \in lines' :
           (l1.cart = l2.cart /\ l1.product = l2.product /\ l1.size = l2.size)
             => l1 = l2
      /\ \A s \in Sessions, p \in Products, size \in Sizes, qty \in AnyQuantities :
           (/\ lastOp'.op = "add" /\ lastOp'.res \in {"added", "updated"}
            /\ session[s] # NoCart /\ LineOf(lines, s, p, size) # {}
            /\ AddToCart(s, p, size, qty))
           => /\ Cardinality(lines') = Cardinality(lines)
              /\ \E l \in LineOf(lines', s, p, size) :
                   \E cp \in LineOf(lines, s, p, size) :
                      l.quantity = cp.quantity + qty
    ]_vars

\* a cart with product P in two sizes, one of them added twice
C12_Witness ==
  /\ lastOp.op = "add" /\ lastOp.res = "updated"
  /\ \E l1, l2 \in lines :
       /\ l1.cart = l2.cart /\ l1.product = l2.product
       /\ l1.size = None /\ l2.size = "M" /\ l1.quantity = 2

\* C13: every cart line has quantity >= 1, whatever integer quantities the
\* add-to-cart requests carried.
C13_QuantityAtLeastOne == \A l \in lines : l.quantity >= 1

\* C14: an order item, once created, keeps its product_name, product_price,
\* quantity, selected_size and subtotal in every later step; its product
\* reference changes only by becoming null when that product is deleted.
C14_OrderItemsImmutable ==
  [][ \A i \in orderItems :
        \E j \in orderItems' :
          /\ j.order = i.order /\ j.n = i.n
          /\ j.product_name = i.product_name
          /\ j.product_price = i.product_price
          /\ j.quantity = i.quantity
          /\ j.selected_size = i.selected_size
          /\ j.subtotal = i.subtotal
          /\ \/ j.product = i.product
             \/ j.product = None /\ i.product \notin exists'
    ]_vars

\* an order item of P at 10.00 after P was renamed, repriced and deleted
C14_Witness ==
  /\ lastOp.op = "delete_product"
  /\ "P" \notin exists
  /\ catalog["P"].price = 1200 /\ catalog["P"].title = "P (new)"
  /\ \E i \in orderItems : /\ i.product = None /\ i.product_name = "P"
                           /\ i.product_price = 1000 /\ i.subtotal = 1000

\* the moves of the order state machine: pending -> processing -> shipped
\* -> delivered, cancelled and refunded from pending or processing
LegalMove(a, b) ==
  \/ a = b
  \/ a = "pending" /\ b = "processing"
  \/ a = "processing" /\ b = "shipped"
  \/ a = "shipped" /\ b = "delivered"
  \/ a \in {"pending", "processing"} /\ b \in {"cancelled", "refunded"}

\* C15: every change of an order's status made by a verify request is a
\* move of the order state machine; in particular a shipped, delivered,
\* cancelled or refunded order is never set to processing or pending.
C15_VerifyFollowsStateMachine ==
  [][ lastOp'.op = "verify" =>
        \A o \in orders : \A o2 \in orders' :
          o2.id = o.id => LegalMove(o.order_status, o2.order_status) ]_vars

\* C16: every order a checkout creates has order_status pending and
\* payment_complete false, its amount and subtotal are the cart's total,
\* its user is the session's user and its order_number and ref are
\* generated ones, whatever the request body carried.
C16_CheckoutIgnoresClientFields ==
  [][ \A o \in orders' \ orders :
        /\ o.order_status = "pending"
        /\ o.payment_complete = FALSE
        /\ o.amount = total[o.cart] /\ o.subtotal = total[o.cart]
        /\ o.cart = session[o.user]
        /\ o.order_number \in OrderNumbers
        /\ o.ref \in RefTokens
    ]_vars

\* an order made from the body that names the buyer and carries the
\* columns a client has no say in
C16_Witness ==
  /\ lastOp.op = "checkout" /\ lastOp.res = "created"
  /\ \E o \in orders : o.order_by = HostileBody.order_by /\ o.order_status = "pending"

\* the attempts of the call that were not answered with 429
OtherFailures(log) ==
  Cardinality({i \in 1..Len(log) : log[i].code # 429})

\* C17: a 429 response costs nothing of the retry allowance: a call that
\* gives up for lack of attempts has made max_retries attempts that were
\* not answered with 429.
C17_RateLimitNotCounted ==
  (call.at = "done"
     /\ call.result \in {"Max retries exceeded", "HTTP error",
                         "Request timeout after 3 retries",
                         "Connection error after 3 retries"})
    => OtherFailures(call.log) = max_retries

\* the attempt failed with a timeout, a connection error or a response
\* that is neither 200 nor 429
PlainFailure(out) ==
  \/ out.kind \in {"timeout", "connection_error"}
  \/ out.kind = "response" /\ out.code \notin {200, 429}

\* C18: a call makes at most max_retries HTTP attempts; while its attempts
\* fail with timeouts, connection errors or non-200 responses it has slept
\* retry_delay x attempt number after each failed attempt but the last
\* allowed one, after max_retries such failures it has returned
\* (False, error), and a 200 response ends the call at once.
C18_BoundedRetriesWithBackoff ==
  /\ call.sent <= max_retries
  /\ call.sent = Len(call.log)
  /\ (\A i \in 1..Len(call.log) : PlainFailure(call.log[i])) =>
       /\ Len(call.slept) = IF call.sent < max_retries THEN call.sent
                            ELSE max_retries - 1
       /\ \A i \in 1..Len(call.slept) : call.slept[i] = retry_delay * i
       /\ call.sent = max_retries =>
            call.at = "done" /\ ~call.ok /\ call.result # None
       /\ (call.sent < max_retries /\ call.sent > 0) => call.at = "loop"
  /\ \A i \in 1..Len(call.log) :
       call.log[i].code = 200 => i = Len(call.log) /\ call.at = "done"

\* three timeouts: slept 1 s, then 2 s, then gave up
C18_Witness ==
  /\ call.at = "done" /\ ~call.ok /\ call.sent = 3
  /\ call.slept = <<1, 2>>
  /\ \A i \in 1..3 : call.log[i].kind = "timeout"

\* C19: a payment-page request changes no order, order item, cart, line,
\* stock or session; it sends at most one request to the provider, exactly
\* one when the order is the user's and unpaid, and that request carries
\* the order's amount in minor units (25.00 -> 2500) and the order's ref.
C19_PaymentInitHasNoLocalEffect ==
  [][ lastOp'.op = "payment_page" =>
        /\ UNCHANGED <<exists, catalog, cache, in_stock, session, nCarts, total,
                       lines, orders, orderItems>>
        /\ Len(lastOp'.calls) <= 1
        /\ \A o \in orders :
             (o.id = lastOp'.id /\ ~o.payment_complete /\ lastOp'.res # "error500")
               => Len(lastOp'.calls) = 1
        /\ \A i \in 1..Len(lastOp'.calls) :
             \E o \in orders :
               /\ o.id = lastOp'.id
               /\ lastOp'.calls[i].amount = o.amount
               /\ lastOp'.calls[i].reference = o.ref
    ]_vars

\* Scenario C: the order of 25.00 is initialized with amount 2500
C19_Witness ==
  /\ lastOp.op = "payment_page" /\ lastOp.res = "initiated"
  /\ lastOp.calls[1].amount = 2500
  /\ \E o \in orders : o.id = lastOp.id /\ o.amount = 2500
                       /\ o.ref = lastOp.calls[1].reference

\* C20: while no product write is under way, every cached product list and
\* every cached product count of a category equals the value computed from
\* the current database state.
C20_CacheMatchesDatabase ==
  (\A w \in Procs : pc[w] = "idle") =>
    /\ \A e \in cache.prod : e.products = ProductList(e.cat)
    /\ \A e \in cache.count : e.n = ProductCount(e.cat)

\* C21: the verification cache holds only verifications the provider
\* confirmed as successful, and verify_payment answers from the cache only
\* with such a verification.
C21_OnlyPaidVerificationsCached ==
  /\ \A e \in cache.verify : e.data = "success"
  /\ (vp.at = "done" /\ vp.cached) => vp.data = "success"

ListRemovers == {"expire", "update_product", "delete_product", "create_product"}

\* C23: invalidation is best-effort.  A cached product list leaves the cache
\* only by its timeout or by a product write's delete, a read that hits
\* returns the cached list as it is, whatever the database holds now, and
\* the list a read stores after a miss is the one it computed at the miss.
C23_StaleListServedUntilCleared ==
  [][/\ \A e \in cache.prod :
          /\ e \in cache'.prod \/ lastOp'.op \in ListRemovers
                \/ (lastOp'.op = "read_store" /\ lastOp'.cat = e.cat)
          /\ (lastOp'.op = "read_hit" /\ lastOp'.cat = e.cat)
               => (lastOp'.value = e.products /\ e \in cache'.prod)
     /\ rd.at = "store"
          => (rd' = rd \/ [cat |-> rd.cat, products |-> rd.value] \in cache'.prod)
    ]_vars

\* Scenario: a read of P's category missed and computed its list, P was
\* then edited (saved, its category's keys deleted), the read stored its
\* list, and a later read is served that list, which differs from the
\* database in P
C23_Witness ==
  /\ lastOp.op = "read_hit"
  /\ "P" \in exists /\ catalog["P"].category = lastOp.cat
  /\ [cat |-> lastOp.cat, products |-> lastOp.value] \in cache.prod
  /\ ("P" \in lastOp.value) # ("P" \in ProductList(lastOp.cat))

\* ---------------------------------------------------------------------- C24
\* C24: a verify call, whatever the provider reports, leaves every order
\* as it was except for order_status and payment_complete (amount,
\* subtotal, ref, order_number, user, cart and shipping fields keep their
\* values), and leaves the order items as they were.
C24_VerifyKeepsOrderData ==
  [][(/\ lastOp'.op = "verify"
      /\ (lastOp' # lastOp \/ orders' # orders \/ orderItems' # orderItems))
       => /\ orderItems' = orderItems
          /\ Cardinality(orders') = Cardinality(orders)
          /\ \A o \in orders : \E o2 \in orders' :
                o2 = [o EXCEPT !.order_status = o2.order_status,
                               !.payment_complete = o2.payment_complete]
    ]_vars

\* Scenario: an order with items was paid, and a later verify call that
\* reported the payment abandoned has saved it again
C24_Witness ==
  /\ lastOp.op = "verify" /\ lastOp.res = "abandoned"
  /\ \E o \in orders :
       /\ o.ref = lastOp.ref /\ o.payment_complete
       /\ o.order_number \in OrderNumbers /\ o.amount > 0
       /\ ItemsOf(o) # {}

\* ---------------------------------------------------------------------- C25
\* C25: payment completion is monotonic.  Every order with
\* payment_complete = TRUE has a status other than pending, every order
\* with status processing has payment_complete = TRUE, and no verify call
\* takes payment_complete back to FALSE.
C25_PaymentCompletionMonotonic ==
  [][\A o \in orders' :
       /\ o.payment_complete => o.order_status # "pending"
       /\ o.order_status = "processing" => o.payment_complete
       /\ \A b \in orders : (b.id = o.id /\ b.payment_complete)
                               => o.payment_complete
    ]_vars

\* ---------------------------------------------------------------------- C26
\* C26: when the add-to-cart and manage-cart requests that ran on a cart at
\* the same time have all completed, the cart's total equals the sum of
\* the subtotals of its lines.
C26_TotalAfterInterleavedRequests ==
  (\A w \in Procs : cw[w].at = "idle") =>
    \A c \in 1..nCarts : total[c] = SumField(CartLines(c), "subtotal")

\* ---------------------------------------------------------------------- C27
\* C27: a cart is converted into at most one order.  No two orders refer to
\* the same cart, whatever the interleaving of the checkout requests, and
\* no session refers to a cart that an order was created from.
C27_OneOrderPerCart ==
  /\ \A o1, o2 \in orders : o1.cart = o2.cart => o1 = o2
  /\ \A o \in orders, s \in Sessions : session[s] # o.cart

\* ---------------------------------------------------------------------- C28
\* C28: a manage-cart request changes only the cart of the requester's own
\* session: no inc, dcr or rmv request of session s changes the lines or
\* the total of a cart that session s does not refer to.
C28_ManageCartOwnCartOnly ==
  [][\A s \in Sessions, c \in 1..MaxCarts :
       (/\ c # session[s]
        /\ CartLines(c)' # CartLines(c) \/ total'[c] # total[c]
        /\ \E p \in Products, size \in Sizes, a \in CartActions :
              ManageCartRequest(s, c, p, size, a))
         => FALSE
    ]_vars

\* ---------------------------------------------------------------------- C29
\* price x quantity summed over order items
RECURSIVE OrderItemsValue(_)
OrderItemsValue(items) ==
  IF items = {} THEN 0
  ELSE LET i == CHOOSE x \in items : TRUE
       IN  i.product_price * i.quantity + OrderItemsValue(items \ {i})

\* C29: every order item has subtotal = product_price x quantity, and the
\* amount of every order is the sum of product_price x quantity over its
\* items, also when the product's price was edited between add-to-cart
\* and checkout.
C29_OrderItemSubtotalIsPriceTimesQuantity ==
  /\ \A i \in orderItems : i.subtotal = i.product_price * i.quantity
  /\ \A o \in orders : o.amount = OrderItemsValue(ItemsOf(o))

\* ---------------------------------------------------------------------- C30
\* C30: after a product that is in some cart is deleted, and its cart lines
\* with it, the total of every cart equals the sum of the subtotals of the
\* lines the cart still has.
C30_ProductDeleteKeepsCartTotal ==
  [][(lastOp'.op = "delete_product" /\ exists' # exists)
       => \A c \in 1..nCarts :
            total'[c] = SumField({l \in lines' : l.cart = c}, "subtotal")
    ]_vars
====
